---- MODULE Spec2Model ----
(***************************************************************************)
(* Model of GitRefCreator (src/Tasks/common/GitRefCreator.ts): the release *)
(* task that discovers the Git artifacts of a release from the agent's     *)
(* variables and creates one ref per artifact repository.                  *)
(*                                                                         *)
(* An invocation (one call of run) is a sequential async function; it can  *)
(* be suspended only at its awaits, i.e. at the external calls getBuild,   *)
(* updateRefs and getRefs.  Each action below is one such segment: the     *)
(* external call together with all the code run up to the next await.      *)
(* tl.debug output is not modelled; warnings, errors, setResult calls and  *)
(* external calls are recorded, in order, in trace.                        *)
(***************************************************************************)
EXTENDS Integers, Sequences, FiniteSets, TLC

\* ------------------------------------------------------------------------
\* Bounds and value universes
\* ------------------------------------------------------------------------

\* number of distinct commits that artifacts and pre-existing refs may name
NumCommits == 2

CommitIds == <<"c1", "c2", "c3">>

Commits == {CommitIds[n] : n \in 1..NumCommits}

\* the two invocations of the task that a behaviour may contain
Invocations == {1, 2}

\* artifact aliases of the release, in the order the agent lists them
ArtifactOrder == <<"A", "Bb", "Ccc">>

\* JavaScript null and undefined, kept apart because the code uses both
\* `!= null` (line 110) and `=== null` (line 121)
Null == "<null>"

Undefined == "<undefined>"

\* marks a variable that the release does not define (no entry in variables)
Absent == "<absent>"

\* the repository named by RELEASE.ARTIFACTS.<n>.REPOSITORY_ID
DirectRepository == "r1"

\* the build known to the Build service and the repository it was built from
KnownBuildId == "17"

BuildRepository == "r2"

Repositories == {DirectRepository, BuildRepository}

\* a ref that every repository has besides the task's ref
OtherRefName == "refs/heads/master"

VARIABLES
    variables,      \* tl.getVariables(): sequence of [name, value]
    unset,          \* what tl.getVariable returns for a variable that is not set
    schedule,       \* "single" | "sequential" | "concurrent" invocations
    refs,           \* the Git service: repository -> sequence of [name, objectId]
    pc,             \* invocation -> position in run
    varIdx,         \* invocation -> index of the for loop of getAllGitArtifacts
    lastIndex,      \* invocation -> regexp.lastIndex of getAllGitArtifacts
    artifactNames,  \* invocation -> the array built by getAllGitArtifacts
    artIdx,         \* invocation -> index of the for loop of run
    updateResult,   \* invocation -> updateResult of processArtifact
    trace,          \* invocation -> external calls and task-lib output, in order
    inputs,         \* the task's inputs: input name -> value, or Absent
    releaseName,    \* generateRef's releaseName, a sequence of characters
    prefix,         \* generateRef's prefix
    generated       \* what the calls of generateRef returned, in order

\* the state that generateRef reads and the record of its calls
derivationVars == <<inputs, releaseName, prefix, generated>>

vars == <<variables, unset, schedule, refs, pc, varIdx, lastIndex,
          artifactNames, artIdx, updateResult, trace, derivationVars>>


\* ------------------------------------------------------------------------
\* Variable names and the discovery pattern (getAllGitArtifacts, line 74)
\* ------------------------------------------------------------------------

\* A variable name is the sequence of its tokens; consecutive tokens are
\* separated by one character ("." or "_"), which the pattern's unescaped
\* "." matches.  Tokens are written in upper case, the form the pattern's
\* "i" flag folds to.
VarName(alias, suffix) == <<"RELEASE", "ARTIFACTS">> \o alias \o suffix

RECURSIVE Offset(_, _)
\* index of the first character of token i of name (0-based, as lastIndex)
Offset(name, i) ==
    IF i <= 1 THEN 0 ELSE Offset(name, i - 1) + Len(name[i - 1]) + 1

\* the matches of /RELEASE.ARTIFACTS.(.*).REPOSITORY.PROVIDER/ in name that
\* start at or after from: <<i, j>> with RELEASE at token i, REPOSITORY at j
Matches(name, from) ==
    {m \in (1..Len(name)) \X (1..Len(name)) :
        /\ m[1] + 3 <= m[2]
        /\ m[2] + 1 <= Len(name)
        /\ name[m[1]] = "RELEASE"
        /\ name[m[1] + 1] = "ARTIFACTS"
        /\ name[m[2]] = "REPOSITORY"
        /\ name[m[2] + 1] = "PROVIDER"
        /\ Offset(name, m[1]) >= from}

\* regexp.exec(name) of a RegExp with the "g" flag: the search starts at
\* lastIndex, takes the leftmost match with the longest capture, and leaves
\* lastIndex at the end of the match, or at 0 when nothing matches
RegExpExec(name, from) ==
    LET ms == Matches(name, from) IN
    IF ms = {}
    THEN [match |-> FALSE, capture |-> <<>>, lastIndex |-> 0]
    ELSE LET i == CHOOSE x \in {m[1] : m \in ms} :
                     \A y \in {m[1] : m \in ms} : x <= y
             j == CHOOSE x \in {m[2] : m \in {n \in ms : n[1] = i}} :
                     \A y \in {m[2] : m \in {n \in ms : n[1] = i}} : y <= x
         IN [match |-> TRUE,
             capture |-> SubSeq(name, i + 2, j - 1),
             lastIndex |-> Offset(name, j + 1) + Len(name[j + 1])]

\* tl.getVariable(name): the value of the variable, or unset
GetVariable(name) ==
    IF \E k \in 1..Len(variables) : variables[k].name = name
    THEN variables[CHOOSE k \in 1..Len(variables) : variables[k].name = name].value
    ELSE unset

\* the test of line 83 reduced to a non-empty provider
IsAnyProvider(value) == value # ""

\* line 83: the provider values that make an artifact a Git artifact
IsGitProvider(value) == ~(value # "TfsGit" /\ value # "Git")

\* Number(buildid) of line 126, as text: NaN for anything but digits
NumberOf(buildid) == IF buildid = KnownBuildId THEN buildid ELSE "NaN"

\* ------------------------------------------------------------------------
\* Initial states
\* ------------------------------------------------------------------------

Entry(name, value) == [name |-> name, value |-> value]

\* the variables a release defines for one artifact: its PROVIDER variable,
\* and the others
ProviderEntry(alias, c) ==
    IF c.provider = Absent THEN <<>>
    ELSE <<Entry(VarName(<<alias>>, <<"REPOSITORY", "PROVIDER">>), c.provider)>>

OtherEntries(alias, c) ==
    IF c.provider = Absent THEN <<>>
    ELSE (IF c.rid = Absent THEN <<>>
          ELSE <<Entry(VarName(<<alias>>, <<"REPOSITORY_ID">>), c.rid)>>)
      \o (IF c.bid = Absent THEN <<>>
          ELSE <<Entry(VarName(<<alias>>, <<"BUILDID">>), c.bid)>>)
      \o (IF c.commit = Absent THEN <<>>
          ELSE <<Entry(VarName(<<alias>>, <<"SOURCEVERSION">>), c.commit)>>)

HeaderEntries == <<Entry(<<"RELEASE", "RELEASENAME">>, "Release 1")>>

RECURSIVE ProviderEntries(_, _)
ProviderEntries(cfg, k) ==
    IF k > Len(cfg) THEN <<>>
    ELSE ProviderEntry(ArtifactOrder[k], cfg[k]) \o ProviderEntries(cfg, k + 1)

RECURSIVE AllOtherEntries(_, _)
AllOtherEntries(cfg, k) ==
    IF k > Len(cfg) THEN <<>>
    ELSE OtherEntries(ArtifactOrder[k], cfg[k]) \o AllOtherEntries(cfg, k + 1)

RECURSIVE ArtifactEntries(_, _)
ArtifactEntries(cfg, k) ==
    IF k > Len(cfg) THEN <<>>
    ELSE ProviderEntry(ArtifactOrder[k], cfg[k]) \o OtherEntries(ArtifactOrder[k], cfg[k])
         \o ArtifactEntries(cfg, k + 1)

\* the agent lists the variables grouped by artifact, or grouped by kind
VariablesOf(cfg, layout) ==
    IF layout = "byArtifact"
    THEN HeaderEntries \o ArtifactEntries(cfg, 1)
    ELSE HeaderEntries \o ProviderEntries(cfg, 1) \o AllOtherEntries(cfg, 1)

\* an artifact of the release: its provider and the variables it defines
Config(provider, rid, bid, commit) ==
    [provider |-> provider, rid |-> rid, bid |-> bid, commit |-> commit]

NoArtifact == Config(Absent, Absent, Absent, Absent)

ArtifactConfigs(commits) ==
    [provider : {"Git", "TfsGit"},
     rid : {Absent, "", DirectRepository},
     bid : {Absent, "", KnownBuildId},
     commit : commits]
    \cup {Config("Svn", DirectRepository, KnownBuildId, c) : c \in commits}
    \cup {NoArtifact}

\* a repository's refs: master, and possibly the task's ref
RefName == "refs/tags/Release1"

InitialRefs ==
    {<<[name |-> OtherRefName, objectId |-> CommitIds[1]]>>}
    \cup {<<[name |-> OtherRefName, objectId |-> CommitIds[1]],
            [name |-> RefName, objectId |-> c]>> : c \in Commits}

NoUpdateResult == [success |-> FALSE, updateStatus |-> Null,
                   repositoryId |-> Null, newObjectId |-> Null]

\* ------------------------------------------------------------------------
\* Deriving the ref name (generateRef, lines 46-70)
\* ------------------------------------------------------------------------

\* longest release name tried
MaxLen == 3

\* number of generateRef calls in a behaviour
MaxCalls == 2

\* the characters \s matches among those a release name is made of
Whitespace == {" ", "\t"}

\* a release name is a sequence of these characters
Chars == {"a", "A"} \cup Whitespace

ReleaseNames == UNION {[1..n -> Chars] : n \in 0..MaxLen}

\* the prefix the concrete task passes; it is only prepended, so it is kept
\* as one piece
Prefixes == {<<"refs/tags/">>, <<"refs/heads/">>}

InputNames == {"searchRegex", "regexFlags", "replacePattern"}

\* the values an input may be set to
InputValues(inputName) ==
    CASE inputName = "searchRegex" -> {"\\s+", "a"}
      [] inputName = "regexFlags" -> {"g", "i"}
      [] inputName = "replacePattern" -> {"", "-"}

\* lines 10-12
defaultSearchPattern == "\\s+"

\* the default flags without "g"
defaultRegexFlagsFirstOnly == ""

defaultRegexFlags == "g"

defaultReplacePattern == ""

\* tl.getInput(inputName, false)
GetInput(inputName) == IF inputs[inputName] = Absent THEN unset ELSE inputs[inputName]

\* lines 63-70: `value != null` is false for null and for undefined
getInputOrDefault(inputName, defaultValue) ==
    LET value == GetInput(inputName) IN
    IF value # Null /\ value # Undefined THEN value ELSE defaultValue

\* the flags of the RegExp of line 53
Global(regexFlags) == regexFlags \in {"g", "gi"}

IgnoreCase(regexFlags) == regexFlags \in {"i", "gi"}

Fold(c) == IF c = "A" THEN "a" ELSE c

\* the length of the run of whitespace that starts at pos (0: none)
RECURSIVE WhitespaceRun(_, _)
WhitespaceRun(str, pos) ==
    IF pos > Len(str) \/ str[pos] \notin Whitespace THEN 0
    ELSE 1 + WhitespaceRun(str, pos + 1)

\* the length of the regular expression's match that starts at pos (0: no
\* match there); the expression is \s+ or a single literal character
MatchLength(str, pos, searchRegex, regexFlags) ==
    IF searchRegex = "\\s+" THEN WhitespaceRun(str, pos)
    ELSE IF str[pos] = searchRegex THEN 1
    ELSE IF IgnoreCase(regexFlags) /\ Fold(str[pos]) = Fold(searchRegex) THEN 1
    ELSE 0

\* the characters of a replacement text that has no $ patterns
Replacement(replacePattern) == IF replacePattern = "" THEN <<>> ELSE <<replacePattern>>

\* line 55: String.prototype.replace from position pos on: the leftmost
\* match is replaced, and with the g flag so is every later match
RECURSIVE Replace(_, _, _, _, _)
Replace(str, pos, searchRegex, regexFlags, replacePattern) ==
    IF pos > Len(str) THEN <<>>
    ELSE LET n == MatchLength(str, pos, searchRegex, regexFlags) IN
         IF n = 0
         THEN <<str[pos]>> \o Replace(str, pos + 1, searchRegex, regexFlags, replacePattern)
         ELSE Replacement(replacePattern)
              \o (IF Global(regexFlags)
                  THEN Replace(str, pos + n, searchRegex, regexFlags, replacePattern)
                  ELSE SubSeq(str, pos + n, Len(str)))

\* lines 46-61
generateRef(name, pre) ==
    LET searchRegex == getInputOrDefault("searchRegex", defaultSearchPattern)
        regexFlags == getInputOrDefault("regexFlags", defaultRegexFlags)
        replacePattern == getInputOrDefault("replacePattern", defaultReplacePattern)
        refName == Replace(name, 1, searchRegex, regexFlags, replacePattern)
    IN  pre \o refName

\* no generateRef call is followed: no input set, nothing generated
NoDerivation ==
    /\ inputs = [n \in InputNames |-> Absent]
    /\ releaseName = <<>>
    /\ prefix = <<"refs/tags/">>
    /\ generated = <<>>

InitInvocations ==
    /\ NoDerivation
    /\ pc = [i \in Invocations |-> "idle"]
    /\ varIdx = [i \in Invocations |-> 1]
    /\ lastIndex = [i \in Invocations |-> 0]
    /\ artifactNames = [i \in Invocations |-> <<>>]
    /\ artIdx = [i \in Invocations |-> 1]
    /\ updateResult = [i \in Invocations |-> NoUpdateResult]
    /\ trace = [i \in Invocations |-> <<>>]

\* one invocation, any release of up to two artifacts
Init ==
    /\ \E c1 \in ArtifactConfigs({CommitIds[1]}), c2 \in ArtifactConfigs(Commits),
          layout \in {"byArtifact", "byKind"} :
          variables = VariablesOf(<<c1, c2>>, layout)
    /\ unset \in {Null, Undefined}
    /\ schedule = "single"
    /\ refs \in [Repositories -> InitialRefs]
    /\ InitInvocations

\* the task run twice, one invocation after the other, for the same release
InitRerun ==
    /\ \E c1 \in {Config("Git", DirectRepository, Absent, CommitIds[1]),
                  Config("TfsGit", Absent, KnownBuildId, CommitIds[1])},
          c2 \in {Config("Git", DirectRepository, KnownBuildId, c) : c \in Commits}
                 \cup {Config("Svn", DirectRepository, Absent, CommitIds[1]),
                       Config("Git", "", "", CommitIds[1]),
                       NoArtifact} :
          variables = VariablesOf(<<c1, c2>>, "byArtifact")
    /\ unset = Undefined
    /\ schedule = "sequential"
    /\ refs \in {[r \in Repositories |->
                    IF r = DirectRepository THEN l
                    ELSE <<[name |-> OtherRefName, objectId |-> CommitIds[1]]>>] :
                 l \in InitialRefs}
    /\ InitInvocations

\* one invocation, a release of three artifacts
InitThree ==
    /\ \E c1 \in {Config("Git", DirectRepository, Absent, CommitIds[1])},
          c2 \in {Config("Git", DirectRepository, Absent, c) : c \in Commits}
                 \cup {Config("TfsGit", Absent, KnownBuildId, c) : c \in Commits},
          c3 \in {Config("Git", DirectRepository, Absent, c) : c \in Commits}
                 \cup {Config("TfsGit", "", KnownBuildId, c) : c \in Commits}
                 \cup {Config("Svn", DirectRepository, Absent, CommitIds[1]),
                       Config("Git", "", "", CommitIds[1])} :
          variables = VariablesOf(<<c1, c2, c3>>, "byArtifact")
    /\ unset = Undefined
    /\ schedule = "single"
    /\ refs \in [Repositories -> InitialRefs]
    /\ InitInvocations

\* the task started twice for the same release, the two invocations
\* interleaved at their external calls; the task's ref exists nowhere yet
InitConcurrent ==
    /\ \E c1 \in {Config("Git", DirectRepository, Absent, CommitIds[1])},
          c2 \in {Config("TfsGit", Absent, KnownBuildId, c) : c \in Commits}
                 \cup {Config("Svn", DirectRepository, Absent, CommitIds[1]),
                       Config("Git", "", "", CommitIds[1]),
                       NoArtifact} :
          variables = VariablesOf(<<c1, c2>>, "byArtifact")
    /\ unset = Undefined
    /\ schedule = "concurrent"
    /\ refs = [r \in Repositories |->
                  <<[name |-> OtherRefName, objectId |-> CommitIds[1]]>>]
    /\ InitInvocations

\* one invocation, a release of three artifacts that may share a
\* repository; the task's ref exists nowhere yet
InitShared ==
    /\ \E c1 \in {Config("Git", DirectRepository, Absent, CommitIds[1])},
          c2 \in {Config("Git", DirectRepository, Absent, c) : c \in Commits}
                 \cup {Config("TfsGit", Absent, KnownBuildId, c) : c \in Commits},
          c3 \in {Config("Git", DirectRepository, Absent, c) : c \in Commits}
                 \cup {Config("TfsGit", "", KnownBuildId, c) : c \in Commits}
                 \cup {Config("Svn", DirectRepository, Absent, CommitIds[1]),
                       Config("Git", "", "", CommitIds[1])} :
          variables = VariablesOf(<<c1, c2, c3>>, "byArtifact")
    /\ unset = Undefined
    /\ schedule = "single"
    /\ refs = [r \in Repositories |->
                  <<[name |-> OtherRefName, objectId |-> CommitIds[1]]>>]
    /\ InitInvocations

\* calls of generateRef for any release name, prefix and inputs; no
\* invocation of run is followed
InitDerive ==
    /\ inputs \in {f \in [InputNames -> UNION {InputValues(n) : n \in InputNames} \cup {Absent}] :
                      \A n \in InputNames : f[n] \in InputValues(n) \cup {Absent}}
    /\ releaseName \in ReleaseNames
    /\ prefix \in Prefixes
    /\ generated = <<>>
    /\ unset \in {Null, Undefined}
    /\ variables = <<>>
    /\ schedule = "single"
    /\ refs = [r \in Repositories |-> <<>>]
    /\ pc = [i \in Invocations |-> "done"]
    /\ varIdx = [i \in Invocations |-> 1]
    /\ lastIndex = [i \in Invocations |-> 0]
    /\ artifactNames = [i \in Invocations |-> <<>>]
    /\ artIdx = [i \in Invocations |-> 1]
    /\ updateResult = [i \in Invocations |-> NoUpdateResult]
    /\ trace = [i \in Invocations |-> <<>>]

\* one call of generateRef (lines 46-61)
GenerateRef ==
    /\ Len(generated) < MaxCalls
    /\ generated' = Append(generated, generateRef(releaseName, prefix))
    /\ UNCHANGED <<inputs, releaseName, prefix, variables, unset, schedule, refs,
                   pc, varIdx, lastIndex, artifactNames, artIdx, updateResult, trace>>

NextDerive == GenerateRef

SpecDerive == InitDerive /\ [][NextDerive]_vars

\* ------------------------------------------------------------------------
\* Trace of an invocation
\* ------------------------------------------------------------------------

\* art is the alias of the artifact the invocation is working on (<<>> when
\* none); args and ret are sequences of strings
Event(op, art, args, ret) == [op |-> op, art |-> art, args |-> args, ret |-> ret]

Warning(art, text) == Event("warning", art, text, <<>>)

Error(art, text) == Event("error", art, text, <<>>)

\* tl.setResult(tl.TaskResult.Failed, message)
SetResultFailed(art, message) == Event("setResult", art, <<"Failed">> \o message, <<>>)

\* the catch of run reporting a fixed text instead of err.message
CatchGeneric(art, message) == <<SetResultFailed(art, <<"Task failed">>)>>

\* line 41: the catch of run
Catch(art, message) == <<SetResultFailed(art, <<message>>)>>

\* ------------------------------------------------------------------------
\* run and getAllGitArtifacts (lines 21-40, 72-129)
\* ------------------------------------------------------------------------

\* an invocation of the task begins: lines 24-32 and 73-74
Start(i) ==
    /\ pc[i] = "idle"
    /\ \/ i = 1
       \/ schedule = "concurrent"
       \/ schedule = "sequential" /\ pc[1] = "done"
    /\ pc' = [pc EXCEPT ![i] = "scan"]
    /\ varIdx' = [varIdx EXCEPT ![i] = 1]
    /\ lastIndex' = [lastIndex EXCEPT ![i] = 0]
    /\ artifactNames' = [artifactNames EXCEPT ![i] = <<>>]
    /\ UNCHANGED <<derivationVars, variables, unset, schedule, refs, artIdx, updateResult, trace>>

Scanning(i) == pc[i] = "scan" /\ varIdx[i] <= Len(variables)

VariableInfo(i) == variables[varIdx[i]]

Match(i) == RegExpExec(VariableInfo(i).name, lastIndex[i])

\* line 109, and line 110: is the direct repository id usable
RepositoryIdVariable(name) == GetVariable(VarName(name, <<"REPOSITORY_ID">>))

HasRepositoryId(name) ==
    LET repositoryId == RepositoryIdVariable(name)
    IN ~(repositoryId \in {Null, Undefined}) /\ repositoryId # ""

\* lines 118-121: the build id, and the test that gives up on it (=== null
\* does not hold of undefined)
BuildIdVariable(name) == VarName(name, <<"BUILDID">>)

NoBuildId(name) ==
    LET buildid == GetVariable(BuildIdVariable(name))
    IN buildid = Null \/ buildid = ""

\* lines 95-99
Artifact(name, repositoryId) ==
    [name |-> name,
     commit |-> GetVariable(VarName(name, <<"SOURCEVERSION">>)),
     repositoryId |-> repositoryId]

\* lines 78-81: the variable does not match the pattern
ScanNoMatch(i) ==
    /\ Scanning(i)
    /\ ~Match(i).match
    /\ lastIndex' = [lastIndex EXCEPT ![i] = Match(i).lastIndex]
    /\ varIdx' = [varIdx EXCEPT ![i] = @ + 1]
    /\ UNCHANGED <<derivationVars, variables, unset, schedule, refs, pc, artifactNames, artIdx,
                   updateResult, trace>>

\* lines 83-86: a PROVIDER variable of another source control system
ScanNotGit(i) ==
    /\ Scanning(i)
    /\ Match(i).match
    /\ ~IsGitProvider(VariableInfo(i).value)
    /\ lastIndex' = [lastIndex EXCEPT ![i] = Match(i).lastIndex]
    /\ varIdx' = [varIdx EXCEPT ![i] = @ + 1]
    /\ UNCHANGED <<derivationVars, variables, unset, schedule, refs, pc, artifactNames, artIdx,
                   updateResult, trace>>

\* lines 88-101 with 109-111: the artifact names its repository
ScanRepositoryId(i) ==
    /\ Scanning(i)
    /\ Match(i).match
    /\ IsGitProvider(VariableInfo(i).value)
    /\ HasRepositoryId(Match(i).capture)
    /\ lastIndex' = [lastIndex EXCEPT ![i] = Match(i).lastIndex]
    /\ artifactNames' = [artifactNames EXCEPT ![i] =
           Append(@, Artifact(Match(i).capture, RepositoryIdVariable(Match(i).capture)))]
    /\ varIdx' = [varIdx EXCEPT ![i] = @ + 1]
    /\ UNCHANGED <<derivationVars, variables, unset, schedule, refs, pc, artIdx, updateResult, trace>>

\* lines 118-124 and 91-93: no repository id and no build id
ScanNoBuildId(i) ==
    /\ Scanning(i)
    /\ Match(i).match
    /\ IsGitProvider(VariableInfo(i).value)
    /\ ~HasRepositoryId(Match(i).capture)
    /\ NoBuildId(Match(i).capture)
    /\ lastIndex' = [lastIndex EXCEPT ![i] = Match(i).lastIndex]
    /\ trace' = [trace EXCEPT ![i] = Append(@,
           SetResultFailed(Match(i).capture,
               <<"Unable to get build id from variable: ">>
                   \o BuildIdVariable(Match(i).capture)))]
    /\ varIdx' = [varIdx EXCEPT ![i] = @ + 1]
    /\ UNCHANGED <<derivationVars, variables, unset, schedule, refs, pc, artifactNames, artIdx,
                   updateResult>>

\* lines 117-126: the repository id has to come from the artifact's build
NeedsBuild(i) ==
    /\ Scanning(i)
    /\ Match(i).match
    /\ IsGitProvider(VariableInfo(i).value)
    /\ ~HasRepositoryId(Match(i).capture)
    /\ ~NoBuildId(Match(i).capture)

BuildNumber(i) == NumberOf(GetVariable(BuildIdVariable(Match(i).capture)))

\* lines 126-128 and 95-101: the Build service answers with the build
GetBuildReturns(i) ==
    /\ NeedsBuild(i)
    /\ BuildNumber(i) = KnownBuildId
    /\ lastIndex' = [lastIndex EXCEPT ![i] = Match(i).lastIndex]
    /\ trace' = [trace EXCEPT ![i] = Append(@,
           Event("getBuild", Match(i).capture, <<BuildNumber(i)>>, <<BuildRepository>>))]
    /\ artifactNames' = [artifactNames EXCEPT ![i] =
           Append(@, Artifact(Match(i).capture, BuildRepository))]
    /\ varIdx' = [varIdx EXCEPT ![i] = @ + 1]
    /\ UNCHANGED <<derivationVars, variables, unset, schedule, refs, pc, artIdx, updateResult>>

\* line 126 throws, or line 127 does because there is no such build; the
\* catch of run ends the invocation
GetBuildFails(i) ==
    /\ NeedsBuild(i)
    /\ lastIndex' = [lastIndex EXCEPT ![i] = Match(i).lastIndex]
    /\ \E failure \in {"throw", "null"} :
          trace' = [trace EXCEPT ![i] = @
              \o <<Event("getBuild", Match(i).capture, <<BuildNumber(i)>>, <<failure>>)>>
              \o Catch(Match(i).capture,
                       IF failure = "throw" THEN "getBuild failed"
                       ELSE "Cannot read property 'repository' of null")]
    /\ pc' = [pc EXCEPT ![i] = "done"]
    /\ UNCHANGED <<derivationVars, variables, unset, schedule, refs, varIdx, artifactNames, artIdx,
                   updateResult>>

\* an empty discovery reported as a failure instead of a warning
NoArtifactsFailure(artifactData) ==
    IF Len(artifactData) = 0
    THEN <<SetResultFailed(<<>>, <<"No TfsGit artifacts found.">>)>>
    ELSE <<>>

\* lines 34-36: the warning of an empty discovery
NoArtifactsWarning(artifactData) ==
    IF Len(artifactData) = 0
    THEN <<Warning(<<>>, <<"No TfsGit artifacts found.">>)>>
    ELSE <<>>

\* lines 32-38: getAllGitArtifacts returns and the loop of run begins
EndScan(i) ==
    /\ pc[i] = "scan"
    /\ varIdx[i] > Len(variables)
    /\ trace' = [trace EXCEPT ![i] = @ \o NoArtifactsWarning(artifactNames[i])]
    /\ artIdx' = [artIdx EXCEPT ![i] = 1]
    /\ pc' = [pc EXCEPT ![i] =
           IF Len(artifactNames[i]) = 0 THEN "done" ELSE "updateRef"]
    /\ UNCHANGED <<derivationVars, variables, unset, schedule, refs, varIdx, lastIndex,
                   artifactNames, updateResult>>


\* ------------------------------------------------------------------------
\* The Git service
\* ------------------------------------------------------------------------

ZeroObjectId == "0000000000000000000000000000000000000000"

\* position of the first ref of refList named name, 0 if there is none
RECURSIVE FindIndex(_, _, _)
FindIndex(refList, name, k) ==
    IF k > Len(refList) THEN 0
    ELSE IF refList[k].name = name THEN k
    ELSE FindIndex(refList, name, k + 1)

\* what a ref of a list points at, the zero id if the list has no such ref
ObjectIdIn(refList, name) ==
    LET k == FindIndex(refList, name, 1)
    IN IF k = 0 THEN ZeroObjectId ELSE refList[k].objectId

\* what a ref currently points at
CurrentObjectId(repositoryId, name) == ObjectIdIn(refs[repositoryId], name)

\* a service that applies every update, whatever old value it expects
AcceptsAny(update) == TRUE

\* the service applies an update only if the ref is at the expected old value
Accepts(update) ==
    CurrentObjectId(update.repositoryId, update.name) = update.oldObjectId

Applied(update) ==
    LET old == refs[update.repositoryId]
        k == FindIndex(old, update.name, 1)
        new == [name |-> update.name, objectId |-> update.newObjectId]
    IN [refs EXCEPT ![update.repositoryId] =
           IF k = 0 THEN Append(old, new) ELSE [old EXCEPT ![k] = new]]

\* the statuses with which the service may reject an update
RejectStatuses(update) ==
    {"CreateBranchPermissionRequired", "CreateTagPermissionRequired"}
    \cup (IF Accepts(update) THEN {"RejectedByPolicy"} ELSE {"StaleOldObjectId"})

\* a list of refs as the strings of a trace event
RECURSIVE Flatten(_)
Flatten(refList) ==
    IF refList = <<>> THEN <<>>
    ELSE <<refList[1].name, refList[1].objectId>> \o Flatten(Tail(refList))

\* ------------------------------------------------------------------------
\* processArtifact, doesRefExist, updateRef (lines 131-196)
\* ------------------------------------------------------------------------

\* the loop of line 38 working on the last artifact in every iteration
CurrentArtifactLast(i) == artifactNames[i][Len(artifactNames[i])]

\* the loop of line 38 walking the array from its end
CurrentArtifactReversed(i) == artifactNames[i][Len(artifactNames[i]) + 1 - artIdx[i]]

\* line 38: the artifact that the loop of run is at
CurrentArtifact(i) == artifactNames[i][artIdx[i]]

\* a force-move: the update expects the ref's current value
RefUpdateExpectingCurrent(artifact, refName) ==
    [isLocked |-> FALSE,
     name |-> refName,
     newObjectId |-> artifact.commit,
     oldObjectId |-> CurrentObjectId(artifact.repositoryId, refName),
     repositoryId |-> artifact.repositoryId]

\* lines 180-186: the update that updateRef submits
RefUpdate(artifact, refName) ==
    [isLocked |-> FALSE,
     name |-> refName,
     newObjectId |-> artifact.commit,
     oldObjectId |-> ZeroObjectId,
     repositoryId |-> artifact.repositoryId]

UpdateArgs(update) ==
    <<update.name, update.newObjectId, update.oldObjectId, update.repositoryId>>

\* the loop of run trying an artifact again when its create was rejected
NextArtifactRetry(i) ==
    /\ artIdx' = [artIdx EXCEPT ![i] = IF pc[i] = "doesRefExist" THEN @ ELSE @ + 1]
    /\ pc' = [pc EXCEPT ![i] =
           IF pc[i] # "doesRefExist" /\ artIdx[i] + 1 > Len(artifactNames[i])
           THEN "done" ELSE "updateRef"]

\* lines 38-40: processArtifact returned, the loop of run goes on
NextArtifact(i) ==
    /\ artIdx' = [artIdx EXCEPT ![i] = @ + 1]
    /\ pc' = [pc EXCEPT ![i] =
           IF artIdx[i] + 1 > Len(artifactNames[i]) THEN "done" ELSE "updateRef"]

\* the early return of line 136 left out: doesRefExist runs after a create
\* that succeeded
UpdateRefSucceedsThenChecks(i) ==
    /\ pc[i] = "updateRef"
    /\ LET update == RefUpdate(CurrentArtifact(i), RefName) IN
       /\ Accepts(update)
       /\ refs' = Applied(update)
       /\ trace' = [trace EXCEPT ![i] = Append(@,
              Event("updateRefs", CurrentArtifact(i).name, UpdateArgs(update),
                    <<"true", "Succeeded">>))]
       /\ updateResult' = [updateResult EXCEPT ![i] =
              [success |-> TRUE, updateStatus |-> "Succeeded",
               repositoryId |-> update.repositoryId,
               newObjectId |-> update.newObjectId]]
    /\ pc' = [pc EXCEPT ![i] = "doesRefExist"]
    /\ UNCHANGED <<derivationVars, variables, unset, schedule, varIdx, lastIndex, artifactNames,
                   artIdx>>

\* lines 135-139, 179-195: the service creates the ref
UpdateRefSucceeds(i) ==
    /\ pc[i] = "updateRef"
    /\ LET update == RefUpdate(CurrentArtifact(i), RefName) IN
       /\ Accepts(update)
       /\ refs' = Applied(update)
       /\ trace' = [trace EXCEPT ![i] = Append(@,
              Event("updateRefs", CurrentArtifact(i).name, UpdateArgs(update),
                    <<"true", "Succeeded">>))]
    /\ NextArtifact(i)
    /\ UNCHANGED <<derivationVars, variables, unset, schedule, varIdx, lastIndex, artifactNames,
                   updateResult>>

\* lines 135-142, 179-195: the service rejects the update; the invocation
\* goes on to doesRefExist
UpdateRefRejected(i) ==
    /\ pc[i] = "updateRef"
    /\ LET update == RefUpdate(CurrentArtifact(i), RefName) IN
       \E status \in RejectStatuses(update) :
          /\ trace' = [trace EXCEPT ![i] = Append(@,
                 Event("updateRefs", CurrentArtifact(i).name, UpdateArgs(update),
                       <<"false", status>>))]
          /\ updateResult' = [updateResult EXCEPT ![i] =
                 [success |-> FALSE, updateStatus |-> status,
                  repositoryId |-> update.repositoryId,
                  newObjectId |-> update.newObjectId]]
    /\ pc' = [pc EXCEPT ![i] = "doesRefExist"]
    /\ UNCHANGED <<derivationVars, variables, unset, schedule, refs, varIdx, lastIndex,
                   artifactNames, artIdx>>

\* lines 190-193 and 136: updateRefs gives null or an empty list; updateRef
\* warns and returns null, and reading updateResult.success throws
UpdateRefNoResult(i) ==
    /\ pc[i] = "updateRef"
    /\ LET update == RefUpdate(CurrentArtifact(i), RefName) IN
       \E result \in {"null", "empty"} :
          trace' = [trace EXCEPT ![i] = @
              \o <<Event("updateRefs", CurrentArtifact(i).name, UpdateArgs(update),
                         <<result>>),
                   Warning(CurrentArtifact(i).name,
                           <<"No update result returned from updateRefs">>)>>
              \o Catch(CurrentArtifact(i).name,
                       "Cannot read property 'success' of null")]
    /\ pc' = [pc EXCEPT ![i] = "done"]
    /\ UNCHANGED <<derivationVars, variables, unset, schedule, refs, varIdx, lastIndex,
                   artifactNames, artIdx, updateResult>>

\* line 189 throws
UpdateRefThrows(i) ==
    /\ pc[i] = "updateRef"
    /\ LET update == RefUpdate(CurrentArtifact(i), RefName) IN
          trace' = [trace EXCEPT ![i] = @
              \o <<Event("updateRefs", CurrentArtifact(i).name, UpdateArgs(update),
                         <<"throw">>)>>
              \o Catch(CurrentArtifact(i).name, "updateRefs failed")]
    /\ pc' = [pc EXCEPT ![i] = "done"]
    /\ UNCHANGED <<derivationVars, variables, unset, schedule, refs, varIdx, lastIndex,
                   artifactNames, artIdx, updateResult>>

PermissionTemplate == "You must grant the build account access to permission: "

\* the comparison of line 171 made with the wrong field
SameCommitWrongField(foundRef, artifact) == foundRef.objectId = artifact.repositoryId

\* the comparison of line 171 left out: any ref of that name counts
SameCommitAnyRef(foundRef, artifact) == TRUE

\* line 171: the ref found is the one the artifact asks for
SameCommit(foundRef, artifact) == foundRef.objectId = artifact.commit

\* what getRefs resolves to: a list of refs, or null
RefsResult(refList) == [null |-> FALSE, list |-> refList]

NullRefs == [null |-> TRUE, list |-> <<>>]

\* doesRefExist answering false whatever getRefs returned
DoesRefExistNever(artifact, refName, result) == [exists |-> FALSE, log |-> <<>>]

\* lines 162-177: the answer of doesRefExist and what it logs, given what
\* getRefs returned
DoesRefExist(artifact, refName, result) ==
    IF result.null THEN [exists |-> FALSE, log |-> <<>>]
    ELSE LET refList == result.list
             k == FindIndex(refList, refName, 1) IN
         IF k = 0 THEN [exists |-> FALSE, log |-> <<>>]
         ELSE IF SameCommit(refList[k], artifact)
         THEN [exists |-> TRUE, log |-> <<>>]
         ELSE [exists |-> FALSE,
               log |-> <<Warning(artifact.name,
                   <<"Ref exists, but on different commit. New commit: ",
                     artifact.commit, " Old Commit: ", refList[k].objectId>>)>>]

\* the two cases of the switch of lines 147-154 exchanged
PermissionErrorsSwapped(artifact, updateStatus) ==
    IF updateStatus = "CreateBranchPermissionRequired"
    THEN <<Error(artifact.name, <<PermissionTemplate, "Create Tag">>)>>
    ELSE IF updateStatus = "CreateTagPermissionRequired"
    THEN <<Error(artifact.name, <<PermissionTemplate, "Create Branch">>)>>
    ELSE <<>>

\* lines 147-154: the permission named for an update status
PermissionErrors(artifact, updateStatus) ==
    IF updateStatus = "CreateBranchPermissionRequired"
    THEN <<Error(artifact.name, <<PermissionTemplate, "Create Branch">>)>>
    ELSE IF updateStatus = "CreateTagPermissionRequired"
    THEN <<Error(artifact.name, <<PermissionTemplate, "Create Tag">>)>>
    ELSE <<>>

\* lines 147-158: what processArtifact emits when it gives up on an artifact
ClassifyAndFail(artifact, refName, result) ==
    PermissionErrors(artifact, result.updateStatus)
    \o <<Error(artifact.name,
           <<"If you need to change permissions see: _admin/_versioncontrol?_a=security&repositoryId=",
             artifact.repositoryId>>),
         SetResultFailed(artifact.name,
           <<"Unable to create ref: ", refName, " UpdateStatus: ", result.updateStatus,
             " RepositoryId: ", result.repositoryId, " Commit: ", result.newObjectId>>)>>

\* lines 142-159, 160-178: getRefs answers (with the refs, or with null)
GetRefsReturns(i) ==
    /\ pc[i] = "doesRefExist"
    /\ LET artifact == CurrentArtifact(i) IN
       \E result \in {RefsResult(refs[artifact.repositoryId]), NullRefs} :
          LET found == DoesRefExist(artifact, RefName, result) IN
          trace' = [trace EXCEPT ![i] = @
              \o <<Event("getRefs", artifact.name, <<artifact.repositoryId>>,
                         IF result.null THEN <<"null">> ELSE Flatten(result.list))>>
              \o found.log
              \o (IF found.exists THEN <<>>
                  ELSE ClassifyAndFail(artifact, RefName, updateResult[i]))]
    /\ NextArtifact(i)
    /\ UNCHANGED <<derivationVars, variables, unset, schedule, refs, varIdx, lastIndex,
                   artifactNames, updateResult>>

\* line 161 throws
GetRefsThrows(i) ==
    /\ pc[i] = "doesRefExist"
    /\ trace' = [trace EXCEPT ![i] = @
           \o <<Event("getRefs", CurrentArtifact(i).name,
                      <<CurrentArtifact(i).repositoryId>>, <<"throw">>)>>
           \o Catch(CurrentArtifact(i).name, "getRefs failed")]
    /\ pc' = [pc EXCEPT ![i] = "done"]
    /\ UNCHANGED <<derivationVars, variables, unset, schedule, refs, varIdx, lastIndex,
                   artifactNames, artIdx, updateResult>>

\* ------------------------------------------------------------------------
\* Specifications
\* ------------------------------------------------------------------------

Next ==
    \E i \in Invocations :
        \/ Start(i)
        \/ ScanNoMatch(i)
        \/ ScanNotGit(i)
        \/ ScanRepositoryId(i)
        \/ ScanNoBuildId(i)
        \/ GetBuildReturns(i)
        \/ GetBuildFails(i)
        \/ EndScan(i)
        \/ UpdateRefSucceeds(i)
        \/ UpdateRefRejected(i)
        \/ UpdateRefNoResult(i)
        \/ UpdateRefThrows(i)
        \/ GetRefsReturns(i)
        \/ GetRefsThrows(i)

Spec == Init /\ [][Next]_vars

SpecRerun == InitRerun /\ [][Next]_vars

SpecThree == InitThree /\ [][Next]_vars

SpecConcurrent == InitConcurrent /\ [][Next]_vars

SpecShared == InitShared /\ [][Next]_vars


\* ------------------------------------------------------------------------
\* Reading a trace
\* ------------------------------------------------------------------------

Aliases == {<<ArtifactOrder[k]>> : k \in 1..Len(ArtifactOrder)}

\* positions of the events of invocation i with the given op and artifact
EventsOf(i, op, a) ==
    {k \in 1..Len(trace[i]) : trace[i][k].op = op /\ trace[i][k].art = a}

\* tl.setResult(Failed, ...) was called in invocation i
Failed(i) == \E k \in 1..Len(trace[i]) : trace[i][k].op = "setResult"

\* the object id that a flattened list of refs gives for a ref name
RECURSIVE ListedObjectId(_, _)
ListedObjectId(flat, name) ==
    IF Len(flat) < 2 THEN ZeroObjectId
    ELSE IF flat[1] = name THEN flat[2]
    ELSE ListedObjectId(Tail(Tail(flat)), name)

\* the service answered a getRefs call with a list
GaveList(e) == e.op = "getRefs" /\ e.ret # <<"null">> /\ e.ret # <<"throw">>

\* invocation i submitted an update for artifact a and the service created the ref
Updated(i, a) ==
    \E k \in EventsOf(i, "updateRefs", a) : trace[i][k].ret = <<"true", "Succeeded">>

\* invocation i submitted an update for artifact a and the service rejected it
Rejected(i, a) ==
    \E k \in EventsOf(i, "updateRefs", a) :
        Len(trace[i][k].ret) = 2 /\ trace[i][k].ret[1] = "false"

\* the commit and repository that invocation i's update for artifact a names
RequestedCommit(i, a) ==
    trace[i][CHOOSE k \in EventsOf(i, "updateRefs", a) : TRUE].args[2]

RequestedRepository(i, a) ==
    trace[i][CHOOSE k \in EventsOf(i, "updateRefs", a) : TRUE].args[4]

\* the fallback of invocation i for artifact a saw the ref at this object id
\* (the zero id: the list has no such ref)
FallbackSaw(i, a, objectId) ==
    \E k \in EventsOf(i, "getRefs", a) :
        GaveList(trace[i][k]) /\ ListedObjectId(trace[i][k].ret, RefName) = objectId

\* what the task said about artifact a in invocation i, by kind
Said(i, kind, a) == EventsOf(i, kind, a) # {}

\* ------------------------------------------------------------------------
\* Claims
\* ------------------------------------------------------------------------

\* C1: idempotence.  If the first invocation's update for an artifact created
\* the ref, then in a second invocation for the same release the update for
\* that artifact is not accepted; once its fallback getRefs has answered,
\* the list shows the ref at the artifact's commit and the task has emitted
\* no warning, no error and no setResult(Failed) for the artifact (it ends
\* AlreadyCorrect, not Diverged); and the ref still points at that commit.
C1_Idempotent ==
    \A a \in Aliases :
        Updated(1, a) =>
            /\ ~Updated(2, a)
            /\ CurrentObjectId(RequestedRepository(1, a), RefName) = RequestedCommit(1, a)
            /\ \A k \in EventsOf(2, "getRefs", a) :
                   GaveList(trace[2][k]) =>
                       /\ RequestedCommit(2, a) = RequestedCommit(1, a)
                       /\ FallbackSaw(2, a, RequestedCommit(1, a))
                       /\ ~Said(2, "warning", a)
                       /\ ~Said(2, "error", a)
                       /\ ~Said(2, "setResult", a)

\* C1 witness: a second invocation has finished after its fallback answered
\* for an artifact whose ref the first invocation created, with no failure
C1_Witness ==
    \E a \in Aliases :
        /\ Updated(1, a)
        /\ Rejected(2, a)
        /\ FallbackSaw(2, a, RequestedCommit(1, a))
        /\ pc[2] = "done"
        /\ ~Failed(2)


\* C2: an existing ref is never overwritten.  Every update the task submits
\* expects the all-zero object id, and in every step a ref that exists keeps
\* the commit it points at, whatever commit the artifacts ask for.
C2_NeverOverwritten ==
    [][/\ \A r \in Repositories :
              CurrentObjectId(r, RefName) # ZeroObjectId =>
                  ObjectIdIn(refs'[r], RefName) = CurrentObjectId(r, RefName)
       /\ \A i \in Invocations : \A k \in 1..Len(trace'[i]) :
              trace'[i][k].op = "updateRefs" => trace'[i][k].args[3] = ZeroObjectId
      ]_vars

\* C2 witness: an update asking for commit B was submitted and rejected
\* while the ref exists on another commit A
C2_Witness ==
    \E i \in Invocations : \E a \in Aliases :
        /\ Rejected(i, a)
        /\ CurrentObjectId(RequestedRepository(i, a), RefName) # ZeroObjectId
        /\ CurrentObjectId(RequestedRepository(i, a), RefName) # RequestedCommit(i, a)
        /\ pc[i] = "done"

\* the fallback of invocation i found the ref of artifact a on another commit
Diverged(i, a) ==
    /\ Rejected(i, a)
    /\ \E k \in EventsOf(i, "getRefs", a) :
          /\ GaveList(trace[i][k])
          /\ ListedObjectId(trace[i][k].ret, RefName) # ZeroObjectId
          /\ ListedObjectId(trace[i][k].ret, RefName) # RequestedCommit(i, a)

ServiceThrew(i) == \E k \in 1..Len(trace[i]) : trace[i][k].ret = <<"throw">>

\* the artifacts that follow position k in the discovered sequence
Later(i, k) == {artifactNames[i][m].name : m \in (k + 1)..Len(artifactNames[i])}

\* artifact a reached classify-and-fail with no ref of the target name
FailedWithoutRef(i, a) == Rejected(i, a) /\ FallbackSaw(i, a, ZeroObjectId)

\* C4 as claimed: failures are aggregated.  In a run in which no external
\* call threw, once an artifact has reached classify-and-fail with no ref of
\* the target name the task is Failed, and at the end of the run every
\* artifact discovered after it has had its update submitted.
C4_AsClaimed ==
    \A i \in Invocations : \A k \in 1..Len(artifactNames[i]) :
        FailedWithoutRef(i, artifactNames[i][k].name) =>
            /\ Failed(i)
            /\ (pc[i] = "done" /\ ~ServiceThrew(i)) =>
                   \A b \in Later(i, k) : Said(i, "updateRefs", b)

\* updateRefs gave invocation i no result for artifact a
NoResult(i, a) ==
    \E k \in EventsOf(i, "updateRefs", a) :
        trace[i][k].ret \in {<<"null">>, <<"empty">>}

\* C5 as claimed: no result from updateRefs is a soft failure.  A warning is
\* logged for the artifact and, at the end of the run, every artifact
\* discovered after it has been reconciled (its update was submitted).
C5_AsClaimed ==
    \A i \in Invocations : \A k \in 1..Len(artifactNames[i]) :
        NoResult(i, artifactNames[i][k].name) =>
            /\ Said(i, "warning", artifactNames[i][k].name)
            /\ pc[i] = "done" => \A b \in Later(i, k) : Said(i, "updateRefs", b)


\* ------------------------------------------------------------------------
\* The release as the variables describe it
\* ------------------------------------------------------------------------

ProviderOf(a) == GetVariable(VarName(a, <<"REPOSITORY", "PROVIDER">>))

\* the artifacts of the release whose provider is Git or TfsGit
GitAliases == {a \in Aliases : ProviderOf(a) \in {"Git", "TfsGit"}}

\* the artifacts whose PROVIDER variable names another provider
OtherAliases ==
    {a \in Aliases :
        /\ \E k \in 1..Len(variables) :
               variables[k].name = VarName(a, <<"REPOSITORY", "PROVIDER">>)
        /\ ~(ProviderOf(a) \in {"Git", "TfsGit"})}

IsSet(value) == ~(value \in {Null, Undefined, ""})

HasDirectId(a) == IsSet(GetVariable(VarName(a, <<"REPOSITORY_ID">>)))

HasBuild(a) == IsSet(GetVariable(VarName(a, <<"BUILDID">>)))

\* Git artifacts whose repository id can be resolved, and those with neither
\* a repository id nor a build id
Resolvable == {a \in GitAliases : HasDirectId(a) \/ HasBuild(a)}

Unresolvable == {a \in GitAliases : ~HasDirectId(a) /\ ~HasBuild(a)}

\* the descriptor that discovery owes a resolvable artifact
Descriptor(a) ==
    [name |-> a,
     commit |-> GetVariable(VarName(a, <<"SOURCEVERSION">>)),
     repositoryId |-> IF HasDirectId(a)
                      THEN GetVariable(VarName(a, <<"REPOSITORY_ID">>))
                      ELSE BuildRepository]

Discovered(i, a) == {k \in 1..Len(artifactNames[i]) : artifactNames[i][k].name = a}

\* a getBuild call of invocation i for one of the given artifacts failed
BuildFailed(i, as) ==
    \E k \in 1..Len(trace[i]) :
        /\ trace[i][k].op = "getBuild"
        /\ trace[i][k].ret \in {<<"throw">>, <<"null">>}
        /\ trace[i][k].art \in as

AfterScan(i) == pc[i] \in {"updateRef", "doesRefExist", "done"}

\* getAllGitArtifacts has returned its array
DiscoveryReturned(i) == AfterScan(i) /\ ~BuildFailed(i, Aliases)

\* C6 as claimed: discovery is complete and exact.  When getAllGitArtifacts
\* has returned, its array holds exactly one descriptor, with the right
\* commit and repository id, for each resolvable Git artifact, and none for
\* any other artifact.
C6_AsClaimed ==
    \A i \in Invocations :
        DiscoveryReturned(i) =>
            \A a \in Aliases :
                IF a \in Resolvable
                THEN /\ Cardinality(Discovered(i, a)) = 1
                     /\ \A k \in Discovered(i, a) : artifactNames[i][k] = Descriptor(a)
                ELSE Discovered(i, a) = {}

\* C7 as claimed: a resolution failure is isolated.  When getAllGitArtifacts
\* has returned, an artifact with neither repository id nor build id is not
\* in the discovered sequence, the task is Failed, and every resolvable Git
\* artifact of the release has been discovered.
C7_AsClaimed ==
    \A i \in Invocations :
        (DiscoveryReturned(i) /\ Unresolvable # {}) =>
            /\ \A u \in Unresolvable : Discovered(i, u) = {}
            /\ Failed(i)
            /\ \A a \in Resolvable : Discovered(i, a) # {}

\* discovery of invocation i returned an empty array
ZeroDiscovered(i) == DiscoveryReturned(i) /\ Len(artifactNames[i]) = 0

NoReconciliation(i) ==
    \A k \in 1..Len(trace[i]) : ~(trace[i][k].op \in {"updateRefs", "getRefs"})

WarnedNoArtifacts(i) ==
    \E k \in 1..Len(trace[i]) :
        trace[i][k] = Warning(<<>>, <<"No TfsGit artifacts found.">>)

\* C8 as claimed: with zero artifacts discovered, run warns, makes no
\* updateRefs or getRefs call, and the task result is never Failed.
C8_AsClaimed ==
    \A i \in Invocations :
        ZeroDiscovered(i) =>
            WarnedNoArtifacts(i) /\ NoReconciliation(i) /\ ~Failed(i)

\* C8 as amended: with zero artifacts discovered, run warns and makes no
\* updateRefs or getRefs call; the empty discovery itself never sets the
\* task result to Failed: the only setResult(Failed) calls of such a run
\* are those made during discovery for a Git artifact that was dropped
\* because it has neither a repository id nor a build id.
C8_ZeroArtifacts ==
    \A i \in Invocations :
        ZeroDiscovered(i) =>
            /\ WarnedNoArtifacts(i)
            /\ NoReconciliation(i)
            /\ \A k \in 1..Len(trace[i]) :
                   trace[i][k].op = "setResult" =>
                       /\ trace[i][k].art \in Unresolvable
                       /\ trace[i][k].args =
                              <<"Failed", "Unable to get build id from variable: ">>
                                  \o VarName(trace[i][k].art, <<"BUILDID">>)

\* C8 witness: a finished run that discovered nothing and failed because
\* its only Git artifact could not be resolved
C8_Witness ==
    \E i \in Invocations :
        ZeroDiscovered(i) /\ pc[i] = "done" /\ Failed(i) /\ WarnedNoArtifacts(i)

\* C9: an artifact whose provider is neither Git nor TfsGit is never in the
\* discovered sequence, and no getBuild, updateRefs or getRefs call is made
\* for it.
C9_OtherProviderIgnored ==
    \A i \in Invocations : \A a \in OtherAliases :
        /\ Discovered(i, a) = {}
        /\ \A k \in 1..Len(trace[i]) :
               trace[i][k].op \in {"getBuild", "updateRefs", "getRefs"} =>
                   trace[i][k].art # a

\* C9 witness: a finished run whose release has an artifact of another
\* provider, scanned and skipped, next to a Git artifact that was reconciled
C9_Witness ==
    \E i \in Invocations : \E a \in OtherAliases : \E b \in Aliases :
        pc[i] = "done" /\ Updated(i, b)


\* the status with which the service rejected invocation i's update for a
RejectStatus(i, a) ==
    trace[i][CHOOSE k \in EventsOf(i, "updateRefs", a) : TRUE].ret[2]

\* processArtifact reached classify-and-fail for artifact a: the create was
\* rejected and getRefs answered without showing the ref on the artifact's
\* commit
ClassifyReached(i, a) ==
    /\ Rejected(i, a)
    /\ \E k \in EventsOf(i, "getRefs", a) :
          /\ trace[i][k].ret # <<"throw">>
          /\ ~(GaveList(trace[i][k])
               /\ ListedObjectId(trace[i][k].ret, RefName) = RequestedCommit(i, a))

\* the texts of the errors that invocation i emitted for artifact a, in order
RECURSIVE ErrorTexts(_, _, _)
ErrorTexts(i, a, k) ==
    IF k > Len(trace[i]) THEN <<>>
    ELSE (IF trace[i][k].op = "error" /\ trace[i][k].art = a
          THEN <<trace[i][k].args>> ELSE <<>>) \o ErrorTexts(i, a, k + 1)

PermissionText(permission) ==
    <<"You must grant the build account access to permission: ", permission>>

PointerText(repositoryId) ==
    <<"If you need to change permissions see: _admin/_versioncontrol?_a=security&repositoryId=",
      repositoryId>>

\* C10: failure classification.  When classify-and-fail is reached, the
\* errors emitted for the artifact are: the "Create Branch" permission
\* message if the status is CreateBranchPermissionRequired, the "Create Tag"
\* one if it is CreateTagPermissionRequired, neither for any other status;
\* then, in all three cases, the permissions pointer for the artifact's
\* repository; and the task is set to Failed with a message holding the ref
\* name, the status, the repository id and the commit.
C10_Classification ==
    \A i \in Invocations : \A a \in Aliases :
        ClassifyReached(i, a) =>
            LET status == RejectStatus(i, a)
                repositoryId == RequestedRepository(i, a)
            IN /\ ErrorTexts(i, a, 1) =
                      (IF status = "CreateBranchPermissionRequired"
                       THEN <<PermissionText("Create Branch")>>
                       ELSE IF status = "CreateTagPermissionRequired"
                       THEN <<PermissionText("Create Tag")>>
                       ELSE <<>>) \o <<PointerText(repositoryId)>>
               /\ \E k \in EventsOf(i, "setResult", a) :
                      trace[i][k].args =
                          <<"Failed", "Unable to create ref: ", RefName,
                            " UpdateStatus: ", status,
                            " RepositoryId: ", repositoryId,
                            " Commit: ", RequestedCommit(i, a)>>

\* C10 witness: one finished run reached classify-and-fail with each of a
\* branch-permission status, a tag-permission status and another status
C10_Witness ==
    \E i \in Invocations : \E a, b, c \in Aliases :
        /\ pc[i] = "done"
        /\ ClassifyReached(i, a) /\ RejectStatus(i, a) = "CreateBranchPermissionRequired"
        /\ ClassifyReached(i, b) /\ RejectStatus(i, b) = "CreateTagPermissionRequired"
        /\ ClassifyReached(i, c)
        /\ ~(RejectStatus(i, c) \in {"CreateBranchPermissionRequired",
                                     "CreateTagPermissionRequired"})


\* positions of the events of invocation i for artifact a with an op of ops
Calls(i, ops, a) ==
    {k \in 1..Len(trace[i]) : trace[i][k].op \in ops /\ trace[i][k].art = a}

Reconciliation == {"updateRefs", "getRefs"}

\* every position of ks comes before every position of ms
Before(ks, ms) == \A k \in ks : \A m \in ms : k < m

\* C11 as claimed: strictly sequential artifacts.  For artifacts a before b
\* in the discovered sequence, every reconciliation call of a (updateRefs,
\* getRefs) comes before b's repository id lookup (its getBuild call) and
\* before b's reconciliation calls.
C11_AsClaimed ==
    \A i \in Invocations : \A ka, kb \in 1..Len(artifactNames[i]) :
        ka < kb =>
            Before(Calls(i, Reconciliation, artifactNames[i][ka].name),
                   Calls(i, {"getBuild"} \cup Reconciliation, artifactNames[i][kb].name))

\* C11 as amended: two phases, each sequential.  Every repository id lookup
\* (every getBuild call, of any artifact) comes before the first
\* reconciliation call of the invocation; after that the artifacts are
\* reconciled one at a time in discovery order: the updateRefs call of an
\* artifact and, when taken, its getRefs fallback come before the
\* reconciliation calls of every later artifact, and an artifact's getRefs
\* comes after its updateRefs.
C11_TwoPhases ==
    \A i \in Invocations :
        /\ \A a, b \in Aliases :
               Before(Calls(i, {"getBuild"}, a), Calls(i, Reconciliation, b))
        /\ \A a \in Aliases :
               Before(Calls(i, {"updateRefs"}, a), Calls(i, {"getRefs"}, a))
        /\ \A ka, kb \in 1..Len(artifactNames[i]) :
               ka < kb =>
                   Before(Calls(i, Reconciliation, artifactNames[i][ka].name),
                          Calls(i, Reconciliation, artifactNames[i][kb].name))

\* C11 witness: a finished run in which an earlier artifact was reconciled
\* with its fallback and a later one had needed a build lookup
C11_Witness ==
    \E i \in Invocations : \E ka, kb \in 1..Len(artifactNames[i]) :
        /\ ka < kb
        /\ pc[i] = "done"
        /\ Calls(i, {"getRefs"}, artifactNames[i][ka].name) # {}
        /\ Calls(i, {"getBuild"}, artifactNames[i][kb].name) # {}
        /\ Calls(i, {"updateRefs"}, artifactNames[i][kb].name) # {}


\* the catch of run ended invocation i: an external call threw, getBuild
\* gave no build, or updateRefs gave no result
Aborted(i) ==
    \E k \in 1..Len(trace[i]) :
        \/ trace[i][k].ret = <<"throw">>
        \/ trace[i][k].op = "getBuild" /\ trace[i][k].ret = <<"null">>
        \/ trace[i][k].op = "updateRefs" /\ trace[i][k].ret \in {<<"null">>, <<"empty">>}

DiscoveredAliases(i) == {artifactNames[i][k].name : k \in 1..Len(artifactNames[i])}

\* C12 as claimed: no retries.  At the end of an invocation there is at most
\* one getBuild call per artifact, exactly one updateRefs call per
\* discovered artifact and at most one getRefs call per discovered artifact.
C12_AsClaimed ==
    \A i \in Invocations :
        pc[i] = "done" =>
            /\ \A a \in Aliases : Cardinality(Calls(i, {"getBuild"}, a)) <= 1
            /\ \A a \in DiscoveredAliases(i) :
                   /\ Cardinality(Calls(i, {"updateRefs"}, a)) = 1
                   /\ Cardinality(Calls(i, {"getRefs"}, a)) <= 1

\* C12 as amended: no retries.  In one invocation there is at most one
\* getBuild call, at most one updateRefs call and at most one getRefs call
\* per artifact, a getRefs call only after a rejected updateRefs of the same
\* artifact, and an updateRefs call only for a discovered artifact; when the
\* invocation ends without having been aborted, every discovered artifact
\* has had exactly one updateRefs call.
C12_NoRetries ==
    \A i \in Invocations :
        /\ \A a \in Aliases :
               /\ Cardinality(Calls(i, {"getBuild"}, a)) <= 1
               /\ Cardinality(Calls(i, {"updateRefs"}, a)) <= 1
               /\ Cardinality(Calls(i, {"getRefs"}, a)) <= 1
               /\ Calls(i, {"getRefs"}, a) # {} => Rejected(i, a)
               /\ Calls(i, {"updateRefs"}, a) # {} => a \in DiscoveredAliases(i)
        /\ (pc[i] = "done" /\ ~Aborted(i)) =>
               \A a \in DiscoveredAliases(i) :
                   Cardinality(Calls(i, {"updateRefs"}, a)) = 1

\* C12 witness: a run that was not aborted has finished after a build
\* lookup, a rejected create with its fallback, and a failed artifact
C12_Witness ==
    \E i \in Invocations : \E a, b \in Aliases :
        /\ pc[i] = "done"
        /\ ~Aborted(i)
        /\ Len(artifactNames[i]) = 3
        /\ Calls(i, {"getBuild"}, a) # {}
        /\ ClassifyReached(i, b)


\* the message of the exception that an external call throws
ThrownMessage(op) ==
    CASE op = "getBuild" -> "getBuild failed"
      [] op = "updateRefs" -> "updateRefs failed"
      [] op = "getRefs" -> "getRefs failed"

ExternalCalls == {"getBuild", "updateRefs", "getRefs"}

\* C13: an exception of an external call aborts the invocation.  When a
\* getBuild, updateRefs or getRefs call has thrown, the invocation is over,
\* the call is the last external call of its trace (none follows for that
\* artifact or any other), and the only thing after it is the
\* setResult(Failed) whose message is the exception's message.
C13_ExceptionAborts ==
    \A i \in Invocations : \A k \in 1..Len(trace[i]) :
        (trace[i][k].op \in ExternalCalls /\ trace[i][k].ret = <<"throw">>) =>
            /\ pc[i] = "done"
            /\ Len(trace[i]) = k + 1
            /\ trace[i][k + 1].op = "setResult"
            /\ trace[i][k + 1].args = <<"Failed", ThrownMessage(trace[i][k].op)>>

\* C13 witness: a call threw while a discovered artifact was still waiting
\* to be reconciled
C13_Witness ==
    \E i \in Invocations : \E k \in 1..Len(trace[i]) :
        /\ trace[i][k].op = "getRefs"
        /\ trace[i][k].ret = <<"throw">>
        /\ artIdx[i] < Len(artifactNames[i])


PermissionStatuses == {"CreateBranchPermissionRequired", "CreateTagPermissionRequired"}

\* C14: AlreadyCorrect overrides the status of the rejected create.  When
\* the create for an artifact was rejected, with whatever status, and
\* getRefs then shows the ref on the artifact's commit, the task emits no
\* error, no warning and no setResult(Failed) for that artifact.
C14_AlreadyCorrectOverrides ==
    \A i \in Invocations : \A a \in Aliases :
        (Rejected(i, a) /\ FallbackSaw(i, a, RequestedCommit(i, a))) =>
            /\ ~Said(i, "error", a)
            /\ ~Said(i, "warning", a)
            /\ ~Said(i, "setResult", a)

\* C14 witness: a create was rejected with a permission status, the ref was
\* found on the artifact's commit, and the run ended without failure
C14_Witness ==
    \E i \in Invocations : \E a \in Aliases :
        /\ Rejected(i, a)
        /\ RejectStatus(i, a) \in PermissionStatuses
        /\ FallbackSaw(i, a, RequestedCommit(i, a))
        /\ pc[i] = "done"
        /\ ~Failed(i)


\* C15: the fallback read runs only after a rejected create.  Every getRefs
\* call for an artifact comes after an updateRefs call for the same artifact
\* of the same invocation that returned an unsuccessful result, and no
\* getRefs call is made for an artifact whose create succeeded.
C15_FallbackOnlyAfterReject ==
    \A i \in Invocations : \A a \in Aliases :
        /\ \A k \in EventsOf(i, "getRefs", a) :
               \E m \in EventsOf(i, "updateRefs", a) :
                   /\ m < k
                   /\ Len(trace[i][m].ret) = 2
                   /\ trace[i][m].ret[1] = "false"
        /\ Updated(i, a) => EventsOf(i, "getRefs", a) = {}

\* C15 witness: a finished run in which one artifact's create succeeded and
\* another's was rejected and followed by getRefs
C15_Witness ==
    \E i \in Invocations : \E a, b \in Aliases :
        /\ pc[i] = "done"
        /\ Updated(i, a)
        /\ Rejected(i, b)
        /\ EventsOf(i, "getRefs", b) # {}


\* a release name with its whitespace characters left out
StripWhitespace(str) == SelectSeq(str, LAMBDA c : c \notin Whitespace)

DefaultInputs == \A n \in InputNames : inputs[n] = Absent

\* C16: default derivation.  When none of searchRegex, regexFlags and
\* replacePattern is set, every call of generateRef returns the prefix
\* followed by the release name without its whitespace characters, the other
\* characters kept in order; and whatever the inputs, two calls with the
\* same arguments return the same ref name.
C16_DefaultDerivation ==
    /\ DefaultInputs =>
           \A k \in 1..Len(generated) :
               generated[k] = prefix \o StripWhitespace(releaseName)
    /\ \A k, m \in 1..Len(generated) : generated[k] = generated[m]

\* C16 witness: generateRef was called twice with no input set for a
\* release name that has two separate runs of whitespace
C16_Witness ==
    /\ DefaultInputs
    /\ Len(generated) = 2
    /\ \E k \in 1..Len(releaseName) : \E m \in 1..Len(releaseName) :
          /\ k + 1 < m
          /\ releaseName[k] \in Whitespace
          /\ releaseName[k + 1] \notin Whitespace
          /\ releaseName[m] \in Whitespace


\* C17 as claimed: two-tier repository id lookup.  For an artifact whose
\* REPOSITORY_ID is present and non-empty the Build client is never queried
\* and the descriptor carries that value; every getBuild call is for an
\* artifact whose REPOSITORY_ID is absent or empty and whose BUILDID is
\* present, is made with that BUILDID, and the repository id of the build it
\* returns is the one the descriptor carries.
C17_AsClaimed ==
    \A i \in Invocations : \A a \in Aliases :
        /\ HasDirectId(a) =>
               /\ EventsOf(i, "getBuild", a) = {}
               /\ \A d \in Discovered(i, a) :
                      artifactNames[i][d].repositoryId =
                          GetVariable(VarName(a, <<"REPOSITORY_ID">>))
        /\ \A k \in EventsOf(i, "getBuild", a) :
               /\ ~HasDirectId(a)
               /\ HasBuild(a)
               /\ trace[i][k].args = <<GetVariable(VarName(a, <<"BUILDID">>))>>
               /\ trace[i][k].ret \notin {<<"throw">>, <<"null">>} =>
                      /\ Discovered(i, a) # {}
                      /\ \A d \in Discovered(i, a) :
                             artifactNames[i][d].repositoryId = trace[i][k].ret[1]


\* the ref store did nothing but create the ref or reject the create of an
\* existing ref, every getRefs call answered with the list, and every
\* getBuild call with the build
StoreFaithful ==
    \A i \in Invocations : \A k \in 1..Len(trace[i]) :
        /\ trace[i][k].op = "updateRefs" =>
               trace[i][k].ret \in {<<"true", "Succeeded">>, <<"false", "StaleOldObjectId">>}
        /\ trace[i][k].op = "getRefs" => GaveList(trace[i][k])
        /\ trace[i][k].op = "getBuild" => trace[i][k].ret \notin {<<"throw">>, <<"null">>}

\* invocation i ended AlreadyCorrect for artifact a
AlreadyCorrect(i, a) ==
    /\ Rejected(i, a)
    /\ FallbackSaw(i, a, RequestedCommit(i, a))
    /\ ~Said(i, "warning", a)
    /\ ~Said(i, "error", a)
    /\ ~Said(i, "setResult", a)

\* C18: concurrent re-invocation.  Two invocations for the same release run
\* interleaved at their external calls, the ref exists nowhere at the start
\* and the store only ever rejects the create of an existing ref.  When both
\* have ended, for every artifact exactly one invocation's create succeeded,
\* the other invocation ended AlreadyCorrect for it, neither set the task
\* result to Failed for it (nor at all, when every Git artifact of the
\* release is resolvable), and the ref points at the artifact's commit.
C18_ConcurrentCreate ==
    (pc[1] = "done" /\ pc[2] = "done" /\ StoreFaithful) =>
        \A a \in Resolvable :
            /\ \E w \in Invocations :
                  /\ Updated(w, a)
                  /\ ~Said(w, "getRefs", a)
                  /\ ~Said(w, "setResult", a)
                  /\ ~Updated(3 - w, a)
                  /\ AlreadyCorrect(3 - w, a)
                  /\ RequestedCommit(1, a) = RequestedCommit(2, a)
                  /\ CurrentObjectId(RequestedRepository(w, a), RefName) = RequestedCommit(w, a)
            /\ Unresolvable = {} => ~Failed(1) /\ ~Failed(2)

\* C18 witness: both invocations have ended; the first one created the ref
\* of one artifact and the second one, overtaking it, the ref of another
C18_Witness ==
    \E a \in Resolvable :
        /\ pc[1] = "done" /\ pc[2] = "done"
        /\ StoreFaithful
        /\ Updated(1, a)
        /\ AlreadyCorrect(2, a)
        /\ \E b \in Resolvable : b # a /\ Updated(2, b) /\ AlreadyCorrect(1, b)


\* positions in the discovered sequence of the artifacts of repository r
SharingRepository(i, r) ==
    {k \in 1..Len(artifactNames[i]) : artifactNames[i][k].repositoryId = r}

\* the first of a non-empty set of positions
First(ks) == CHOOSE k \in ks : \A m \in ks : k <= m

\* C19: first writer wins within one invocation.  The ref exists nowhere at
\* the start and the store only ever rejects the create of an existing ref.
\* When the run has ended, among the discovered artifacts of one repository
\* only the first one's create succeeded, the ref points at that artifact's
\* commit, and every later artifact of the repository ended AlreadyCorrect
\* if its commit is the same and Diverged (with the different-commit
\* warning) if it differs.
C19_FirstWriterWins ==
    \A i \in Invocations : \A r \in Repositories :
        (pc[i] = "done" /\ StoreFaithful /\ SharingRepository(i, r) # {}) =>
            LET f == First(SharingRepository(i, r))
                first == artifactNames[i][f]
            IN /\ Updated(i, first.name)
               /\ CurrentObjectId(r, RefName) = first.commit
               /\ \A k \in SharingRepository(i, r) \ {f} :
                      LET later == artifactNames[i][k] IN
                      /\ ~Updated(i, later.name)
                      /\ IF later.commit = first.commit
                         THEN AlreadyCorrect(i, later.name)
                         ELSE Diverged(i, later.name) /\ Said(i, "warning", later.name)

\* C19 witness: a finished run with three artifacts of one repository, the
\* second on the first one's commit and the third on another
C19_Witness ==
    \E i \in Invocations : \E r \in Repositories :
        /\ pc[i] = "done"
        /\ StoreFaithful
        /\ Cardinality(SharingRepository(i, r)) = 3
        /\ artifactNames[i][2].commit = artifactNames[i][1].commit
        /\ artifactNames[i][3].commit # artifactNames[i][1].commit

====
